---- MODULE Spec2Model ----
(***************************************************************************)
(* Grokipedia-CLI: the API client's request executor                       *)
(* (internal/api/client.go, internal/api/errors.go), the exit status of    *)
(* the process (GetExitCode), the file cache (internal/cache) and the      *)
(* commands that use them (cmd).                                           *)
(*                                                                         *)
(* Spec: one behaviour is one Client (NewClient) issuing one API call      *)
(* through doRequest.  Go's int and time.Duration are 64-bit               *)
(* two's-complement integers; they are kept here as 4 little-endian limbs  *)
(* of 16 bits so that the wrap-around of                                   *)
(* time.Duration(retryAfter) * time.Second is the one the build produces.  *)
(* Strings the code inspects (the Retry-After header, the transport error  *)
(* text, the metadata file) are sequences of characters.                   *)
(*                                                                         *)
(* ExitSpec: one behaviour is one command ending with an error (or none)   *)
(* that Execute turns into the exit status.                                *)
(*                                                                         *)
(* CacheSpec: one behaviour is a cache directory used by successive Cache  *)
(* stores (one at a time), with the clock advancing and the directory      *)
(* being written to from outside.                                          *)
(*                                                                         *)
(* KeySpec: one behaviour is a sequence of calls of GenerateKey, each on   *)
(* an endpoint and a parameter map, with the order in which range yields   *)
(* the keys of a map chosen freely.                                        *)
(*                                                                         *)
(* ProcSpec: one behaviour is a process inside Get and a process inside    *)
(* Set on the same directory, each advancing one file operation at a time. *)
(*                                                                         *)
(* CmdSpec: one behaviour is a sequence of commands (page, constants), one *)
(* process each: PersistentPreRunE builds the store or not, RunE looks up  *)
(* the cache, calls the API, stores and outputs, Execute ends the process. *)
(***************************************************************************)
EXTENDS Integers, Sequences, FiniteSets, TLC

VARIABLES
    client,         \* the Client built by NewClient: [timeout, maxRetryDelay]
    endpoint,       \* the endpoint argument of doRequest ("" before the call)
    pc,             \* "Idle", "Attempting", "Retrying", "Succeeded", "Failed"
    attempt,        \* doRequest's loop variable
    lastErr,        \* doRequest's lastErr
    resp,           \* the response of the current attempt (NoResp if none)
    sleepDuration,  \* the duration handed to the pending time.Sleep
    ret,            \* what doRequest returned: [resp, err]
    out,            \* what the calling method returned: [ok, err]
    calls,          \* number of req.Execute calls issued
    trace,          \* status received by each attempt, 0 for a transport failure
    slept,          \* the durations time.Sleep was called with, in order
    elapsed,        \* time spent in timed-out attempts and in sleeps
    cmdErr,         \* the error rootCmd.Execute() returned: [wraps, err]
    exited,         \* TRUE once the process has ended
    exitCode,       \* the exit status of the process
    cache,          \* the Cache built by New: [dir, ttl]
    dir,            \* what is at the path cache.dir: "absent", "dir", "file"
    fs,             \* the files of the directory: name -> [exists, content]
    now,            \* time.Now().Unix()
    result,         \* outcome of the cache operation just performed
    generated,      \* the last two calls of GenerateKey: [endpoint, params, key]
    cmd,            \* the command being run: its position and what it holds
    reader,         \* a process inside Get: its position and what it has read
    writer          \* a process inside Set: its position

apiVars == <<client, endpoint, pc, attempt, lastErr, resp, sleepDuration, ret, out,
             calls, trace, slept, elapsed>>

exitVars == <<cmdErr, exited, exitCode>>

cacheVars == <<cache, dir, fs, now, result>>

keyVars == <<generated>>

cmdVars == <<cmd>>

procVars == <<reader, writer>>

vars == <<apiVars, exitVars, cacheVars, keyVars, cmdVars, procVars>>

----------------------------------------------------------------------------
(* Bounds of the model *)

\* rand.Intn(1000) is sampled at JitterSteps + 1 evenly spread values.
JitterSteps == 1

\* ClientOptions.Timeout ranges over 0..MaxOptTimeout (seconds).
MaxOptTimeout == 1

\* A command's error is wrapped by at most MaxWraps layers of fmt.Errorf.
MaxWraps == 2

\* The clock of the cache runs over 0..MaxNow (seconds).
MaxNow == 2

----------------------------------------------------------------------------
(* 64-bit integers as little-endian limbs *)

\* A limb holds 16 bits.
Base == 2 ^ 16

\* Go's int and time.Duration are 64 bits wide.
IntLimbs == 64 \div 16

\* Limbs of exact (never wrapping) arithmetic, wide enough for 2^64 * 10^9.
WideLimbs == IntLimbs + 2

RECURSIVE FromNat(_, _)
\* The w-limb integer of a natural number n < 2^31.
FromNat(n, w) ==
    IF w = 0 THEN <<>> ELSE <<n % Base>> \o FromNat(n \div Base, w - 1)

RECURSIVE MulAdd(_, _, _)
\* d * k + c truncated to Len(d) limbs (k, c <= 1000): the product wraps
\* modulo Base^Len(d), as Go's integer multiplication does.
MulAdd(d, k, c) ==
    IF d = <<>> THEN <<>>
    ELSE LET t == Head(d) * k + c
         IN  <<t % Base>> \o MulAdd(Tail(d), k, t \div Base)

RECURSIVE AddC(_, _, _)
\* a + b + c truncated to Len(a) limbs.
AddC(a, b, c) ==
    IF a = <<>> THEN <<>>
    ELSE LET t == Head(a) + Head(b) + c
         IN  <<t % Base>> \o AddC(Tail(a), Tail(b), t \div Base)

Add(a, b) == AddC(a, b, 0)

\* Two's-complement negation.
Neg(a) == AddC([i \in 1..Len(a) |-> Base - 1 - a[i]], [i \in 1..Len(a) |-> 0], 1)

Zero(w) == [i \in 1..w |-> 0]

IsNeg(a) == a[Len(a)] >= Base \div 2

RECURSIVE ULess(_, _)
\* a < b as unsigned integers of the same width.
ULess(a, b) ==
    IF a = <<>> THEN FALSE
    ELSE LET n == Len(a)
         IN  IF a[n] # b[n] THEN a[n] < b[n]
             ELSE ULess(SubSeq(a, 1, n - 1), SubSeq(b, 1, n - 1))

\* a < b as signed integers of the same width.
Less(a, b) ==
    IF IsNeg(a) # IsNeg(b) THEN IsNeg(a) ELSE ULess(a, b)

IsPos(a) == Less(Zero(Len(a)), a)

\* Zero-extension of a non-negative integer to w limbs.
Widen(a, w) == a \o Zero(w - Len(a))

\* a * 10^9 truncated to Len(a) limbs.
MulBillion(a) == MulAdd(MulAdd(MulAdd(a, 1000, 0), 1000, 0), 1000, 0)

----------------------------------------------------------------------------
(* Strings the code inspects, as sequences of characters *)

\* strings.Contains(s, sub)
Contains(s, sub) ==
    \E i \in 0..(Len(s) - Len(sub)) : SubSeq(s, i + 1, i + Len(sub)) = sub

DigitChars == <<"0", "1", "2", "3", "4", "5", "6", "7", "8", "9">>

IsDigit(c) == \E d \in 1..10 : DigitChars[d] = c

DigitVal(c) == (CHOOSE d \in 1..10 : DigitChars[d] = c) - 1

RECURSIVE Magnitude(_, _)
\* The exact value of the digit string ds appended to the digits read so far.
Magnitude(acc, ds) ==
    IF ds = <<>> THEN acc
    ELSE Magnitude(MulAdd(acc, 10, DigitVal(Head(ds))), Tail(ds))

\* 2^63 as a wide integer.
TwoTo63 == [i \in 1..WideLimbs |-> IF i = IntLimbs THEN Base \div 2 ELSE 0]

\* strconv.Atoi on a 64-bit build: [ok, n]; ok is FALSE on a syntax error
\* (empty, sign only, a character that is no digit) and on a value outside
\* the range of int.
Atoi(s) ==
    LET signed == s # <<>> /\ Head(s) \in {"+", "-"}
        ds     == IF signed THEN Tail(s) ELSE s
        neg    == signed /\ Head(s) = "-"
        mag    == Magnitude(Zero(WideLimbs), ds)
        fits   == IF neg THEN ~ULess(TwoTo63, mag) ELSE ULess(mag, TwoTo63)
        n      == SubSeq(mag, 1, IntLimbs)
    IN  IF ds = <<>> \/ (\E i \in 1..Len(ds) : ~IsDigit(ds[i])) \/ ~fits
        THEN [ok |-> FALSE, n |-> Zero(IntLimbs)]
        ELSE [ok |-> TRUE, n |-> IF neg THEN Neg(n) ELSE n]

----------------------------------------------------------------------------
(* Inputs: what the network and the server may answer *)

\* Transport error texts (the cases of TestShouldRetry).
MsgTimeout == <<"c", "o", "n", "n", "e", "c", "t", "i", "o", "n", " ", "t", "i", "m", "e", "o", "u", "t">>

MsgRefused == <<"c", "o", "n", "n", "e", "c", "t", "i", "o", "n", " ", "r", "e", "f", "u", "s", "e", "d">>

MsgNoHost == <<"n", "o", " ", "s", "u", "c", "h", " ", "h", "o", "s", "t">>

MsgTemporary == <<"t", "e", "m", "p", "o", "r", "a", "r", "y", " ", "f", "a", "i", "l", "u", "r", "e">>

MsgOther == <<"s", "o", "m", "e", " ", "o", "t", "h", "e", "r", " ", "e", "r", "r", "o", "r">>

Messages == {MsgTimeout, MsgRefused, MsgNoHost, MsgTemporary, MsgOther}

\* Retry-After header values; <<>> is the absent header.
HdrAbsent == <<>>

HdrWord == <<"s", "o", "o", "n">>

HdrNegative == <<"-", "5">>

HdrZero == <<"0">>

HdrSixty == <<"6", "0">>

\* The least number of seconds whose nanoseconds exceed the largest int64.
HdrWrapNeg == <<"9", "2", "2", "3", "3", "7", "2", "0", "3", "7">>

\* The least number of seconds whose nanoseconds exceed 2^64.
HdrWrapPos == <<"1", "8", "4", "4", "6", "7", "4", "4", "0", "7", "4">>

\* 2^63: outside the range of int.
HdrTooBig == <<"9", "2", "2", "3", "3", "7", "2", "0", "3", "6", "8", "5", "4", "7", "7", "5", "8", "0", "8">>

Headers == {HdrAbsent, HdrWord, HdrNegative, HdrZero, HdrSixty, HdrWrapNeg,
            HdrWrapPos, HdrTooBig}

\* Response bodies: opaque to doRequest; only "{}" decodes as JSON.
JSONBodies == {"{}"}

OKBodies == {"{}", "invalid json"}

ErrBodies == {"", "denied"}

ServerErrorStatuses == {500, 502, 503}

\* Statuses the switch of doRequest sends to its default branch.
OtherStatuses == {204, 400, 401, 403, 501, 504}

\* The values drawn from rand.Intn(JitterRange).
JitterRange == 1000

Jitters == {(i * (JitterRange - 1)) \div JitterSteps : i \in 0..JitterSteps}

----------------------------------------------------------------------------
(* Durations (time.Duration: int64 nanoseconds) *)

Millisecond == FromNat(1000000, IntLimbs)

Second == FromNat(1000000000, IntLimbs)

\* time.Duration(n) * time.Second for a small natural number n.
Seconds(n) == MulAdd(Second, n, 0)

\* The timeout NewClient gives to an option that is not positive.
DefaultTimeout == 30

\* The MaxRetryDelay options: unset, and the 10ms of TestClientRateLimit.
MaxRetryDelays == {Zero(IntLimbs), MulAdd(Millisecond, 10, 0)}

----------------------------------------------------------------------------
(* Errors (internal/api/errors.go) and responses *)

NoErr ==
    [type |-> "nil", Message |-> <<>>, Resource |-> "",
     RetryAfter |-> Zero(IntLimbs), Status |-> 0, Body |-> ""]

\* &NetworkError{Message: err.Error()}
NetworkError(msg) == [NoErr EXCEPT !.type = "NetworkError", !.Message = msg]

\* &NotFoundError{Resource: endpoint}
NotFoundError(resource) ==
    [NoErr EXCEPT !.type = "NotFoundError", !.Resource = resource]

\* &RateLimitError{RetryAfter: retryAfter}
RateLimitError(retryAfter) ==
    [NoErr EXCEPT !.type = "RateLimitError", !.RetryAfter = retryAfter]

\* fmt.Errorf("server error: %d", status)
ServerError(status) == [NoErr EXCEPT !.type = "server error", !.Status = status]

\* fmt.Errorf("API error: %d - %s", status, body)
APIError(status, body) ==
    [NoErr EXCEPT !.type = "API error", !.Status = status, !.Body = body]

\* fmt.Errorf("failed to parse ... response: %w", err)
ParseError == [NoErr EXCEPT !.type = "parse error"]

NoResp == [status |-> 0, retryAfter |-> <<>>, body |-> ""]

Response(status, hdr, body) ==
    [status |-> status, retryAfter |-> hdr, body |-> body]

----------------------------------------------------------------------------
(* The helpers of doRequest *)

\* maxRetries with one attempt too many
maxRetries_OffByOne == 3 + 1

maxRetries == 3

\* shouldRetry without the timeout case
shouldRetry_NoTimeout(errStr) ==
    \/ Contains(errStr, <<"c", "o", "n", "n", "e", "c", "t", "i", "o", "n", " ",
                          "r", "e", "f", "u", "s", "e", "d">>)
    \/ Contains(errStr, <<"n", "o", " ", "s", "u", "c", "h", " ", "h", "o", "s", "t">>)
    \/ Contains(errStr, <<"t", "e", "m", "p", "o", "r", "a", "r", "y">>)

\* shouldRetry accepting every error that is not nil
shouldRetry_Always(errStr) == TRUE

\* Client.shouldRetry, on the text of the error
shouldRetry(errStr) ==
    \/ Contains(errStr, <<"t", "i", "m", "e", "o", "u", "t">>)
    \/ Contains(errStr, <<"c", "o", "n", "n", "e", "c", "t", "i", "o", "n", " ",
                          "r", "e", "f", "u", "s", "e", "d">>)
    \/ Contains(errStr, <<"n", "o", " ", "s", "u", "c", "h", " ", "h", "o", "s", "t">>)
    \/ Contains(errStr, <<"t", "e", "m", "p", "o", "r", "a", "r", "y">>)

\* 1<<attempt in place of 1<<(attempt-1)
calculateBackoff_NoShift(a, jitter) ==
    IF a = 0 THEN Zero(IntLimbs)
    ELSE Add(MulAdd(Second, 2 ^ a, 0), MulAdd(Millisecond, jitter, 0))

\* Client.calculateBackoff; jitter is the value rand.Intn returned
calculateBackoff(a, jitter) ==
    IF a = 0 THEN Zero(IntLimbs)
    ELSE Add(MulAdd(Second, 2 ^ (a - 1), 0), MulAdd(Millisecond, jitter, 0))

\* Client.parseRetryAfter
parseRetryAfter(r) ==
    IF r.retryAfter = <<>> THEN Zero(IntLimbs)
    ELSE LET parsed == Atoi(r.retryAfter)
         IN  IF ~parsed.ok THEN Zero(IntLimbs) ELSE parsed.n

\* The sleep doRequest computes after a 429 (client.go lines 96-102).
rateLimitSleep(retryAfter, a, jitter, maxRetryDelay) ==
    LET hinted == MulBillion(retryAfter)
        chosen == IF ~IsPos(hinted) THEN calculateBackoff(a, jitter) ELSE hinted
    IN  IF IsPos(maxRetryDelay) /\ Less(maxRetryDelay, chosen)
        THEN maxRetryDelay
        ELSE chosen

\* json.Unmarshal(resp.Body(), &result) in the calling method
Unmarshal(body) == body \in JSONBodies

----------------------------------------------------------------------------
(* The exit status (internal/api/errors.go)                                *)
(*                                                                         *)
(* An error value is a chain: wraps layers of fmt.Errorf("...: %w", err)   *)
(* around the error err.  The typed errors have no Unwrap method, so they  *)
(* end a chain.                                                            *)

ExitSuccess == 0

ExitGenericError == 1

ExitNotFound == 2

ExitRateLimited == 3

ExitInvalidArgs == 4

\* &InvalidArgsError{Message: ...}
InvalidArgsError == [NoErr EXCEPT !.type = "InvalidArgsError"]

\* &UnknownConstantError{Key: key}
UnknownConstantError == [NoErr EXCEPT !.type = "UnknownConstantError"]

\* errors.New("generic error")
GenericError == [NoErr EXCEPT !.type = "errorString"]

\* The endpoints of the API methods
Endpoints ==
    {"/api/full-text-search", "/api/page", "/api/typeahead", "/api/constants",
     "/api/list-edit-requests", "/api/list-edit-requests-by-slug"}

\* The errors a command ends with: those of an API method, of the argument
\* checks and of the constants lookup, and an error of no declared type.
CommandErrors ==
    {NotFoundError(p) : p \in Endpoints}
        \cup {RateLimitError(parseRetryAfter(Response(429, h, ""))) : h \in Headers}
        \cup {NetworkError(m) : m \in Messages}
        \cup {ServerError(s) : s \in ServerErrorStatuses}
        \cup {APIError(s, b) : s \in OtherStatuses, b \in ErrBodies}
        \cup {ParseError, InvalidArgsError, UnknownConstantError, GenericError}

\* the nil error
NilError == [wraps |-> 0, err |-> NoErr]

\* fmt.Errorf("...: %w", c)
Wrap(c) == [c EXCEPT !.wraps = @ + 1]

\* the types that declare an ExitCode() method
HasExitCode(e) ==
    e.type \in {"NotFoundError", "RateLimitError", "InvalidArgsError",
                "NetworkError", "UnknownConstantError"}

\* the ExitCode() methods
ExitCode(e) ==
    CASE e.type = "NotFoundError" -> ExitNotFound
      [] e.type = "RateLimitError" -> ExitRateLimited
      [] e.type = "InvalidArgsError" -> ExitInvalidArgs
      [] e.type = "NetworkError" -> ExitGenericError
      [] e.type = "UnknownConstantError" -> ExitNotFound

\* errors.As(err, &exitCoder): the first error of the chain that has an
\* ExitCode() method; a layer of fmt.Errorf has none and is unwrapped.
RECURSIVE As(_)
As(c) ==
    IF c.wraps > 0 THEN As([c EXCEPT !.wraps = @ - 1])
    ELSE [ok |-> HasExitCode(c.err), target |-> c.err]

\* a type assertion on err itself in place of errors.As
GetExitCode_TypeAssertion(c) ==
    IF c = NilError THEN ExitSuccess
    ELSE IF c.wraps = 0 /\ HasExitCode(c.err) THEN ExitCode(c.err)
    ELSE ExitGenericError

GetExitCode(c) ==
    IF c = NilError THEN ExitSuccess
    ELSE LET found == As(c)
         IN  IF found.ok THEN ExitCode(found.target) ELSE ExitGenericError

\* no command has ended
NoCommand ==
    /\ cmdErr = NilError
    /\ exited = FALSE
    /\ exitCode = ExitSuccess

----------------------------------------------------------------------------
(* The file cache (internal/cache): files and metadata                     *)

\* Cache keys, as GenerateKey yields them
Keys == {"0a1b2c3d4e5f", "f5e4d3c2b1a0"}

\* Payloads handed to Set
Payloads == {<<"1">>, <<"1", "2">>}

\* Time-to-live values of a store, in seconds: 1 as in TestGetExpired, and 0,
\* with which expiry is not checked
TTLs == {0, 1}

\* The directory every store is built on
CacheDir == "cache"

NoFile == [exists |-> FALSE, content |-> <<>>]

File(content) == [exists |-> TRUE, content |-> content]

\* filepath.Join(c.dir, key+".json"); a file name is <<stem, extension>>
dataPath(key) == <<key, ".json">>

\* filepath.Join(c.dir, key+".meta")
metaPath(key) == <<key, ".meta">>

\* filepath.Ext(name)
Ext(name) == name[2]

\* A file of the directory that the cache did not write
Notes == <<"notes", ".txt">>

\* The file names of the directory
Names == {dataPath(k) : k \in Keys} \cup {metaPath(k) : k \in Keys} \cup {Notes}

EmptyDir == [n \in Names |-> NoFile]

\* os.Remove(name); a missing file is an error the callers ignore
Remove(f, name) == [f EXCEPT ![name] = NoFile]

\* The decimal digits of n >= 0, as json.Marshal writes an integer
RECURSIVE Itoa(_)
Itoa(n) ==
    IF n < 10 THEN <<DigitChars[n + 1]>>
    ELSE Itoa(n \div 10) \o <<DigitChars[(n % 10) + 1]>>

\* The number a JSON number of decimal digits denotes: [ok, n]
RECURSIVE ParseInt(_)
ParseInt(ds) ==
    IF ds = <<>> \/ ~IsDigit(ds[Len(ds)]) THEN [ok |-> FALSE, n |-> 0]
    ELSE IF Len(ds) = 1 THEN [ok |-> TRUE, n |-> DigitVal(ds[1])]
    ELSE LET high == ParseInt(SubSeq(ds, 1, Len(ds) - 1))
         IN  [ok |-> high.ok /\ ds[1] # "0", n |-> 10 * high.n + DigitVal(ds[Len(ds)])]

\* CacheMetadata{CreatedAt, TTL}
CacheMetadata(createdAt, ttl) == [CreatedAt |-> createdAt, TTL |-> ttl]

\* json.Marshal(meta): {"created_at":N,"ttl":N}
Marshal(meta) ==
    <<"{", "created_at", ":">> \o Itoa(meta.CreatedAt)
        \o <<",", "ttl", ":">> \o Itoa(meta.TTL) \o <<"}">>

\* json.Unmarshal(metaData, &meta): [ok, meta]
UnmarshalMetadata(s) ==
    LET commas  == {i \in 1..Len(s) : s[i] = ","}
        c       == IF commas = {} THEN 0
                   ELSE CHOOSE i \in commas : \A j \in commas : i <= j
        shaped  == /\ Len(s) >= 9
                   /\ SubSeq(s, 1, 3) = <<"{", "created_at", ":">>
                   /\ s[Len(s)] = "}"
                   /\ c > 4
                   /\ c + 3 <= Len(s) - 1
                   /\ SubSeq(s, c, c + 2) = <<",", "ttl", ":">>
        created == ParseInt(SubSeq(s, 4, c - 1))
        ttl     == ParseInt(SubSeq(s, c + 3, Len(s) - 1))
    IN  IF shaped /\ created.ok /\ ttl.ok
        THEN [ok |-> TRUE, meta |-> CacheMetadata(created.n, ttl.n)]
        ELSE [ok |-> FALSE, meta |-> CacheMetadata(0, 0)]

\* What the test writes over a metadata file: "invalid json"
Garbage == <<"i", "n", "v", "a", "l", "i", "d", " ", "j", "s", "o", "n">>

\* What a write that fails after the file was opened can leave of content:
\* a strict prefix, here the empty one (the file was truncated at the open).
Torn(content) == IF content = <<>> THEN {} ELSE {SubSeq(content, 1, 0)}

\* New(dir, ttl)
New(d, ttl) == [dir |-> d, ttl |-> ttl]

\* the age test of Get: age > int64(meta.TTL), at the boundary too
Expired_AtTTL(age, ttl) == age >= ttl

\* the age is compared with the ttl of the reading store
Expired_StoreTTL(age, ttl) == age > cache.ttl

\* the age test of Get: age > int64(meta.TTL)
Expired(age, ttl) == age > ttl

\* via names the return statement a Get left by
NoResult ==
    [op |-> "", key |-> "", found |-> FALSE, payload |-> <<>>, err |-> "", via |-> ""]

\* no cache is in use (--no-cache)
NoCache ==
    /\ cache = New(CacheDir, 0)
    /\ dir = "absent"
    /\ fs = EmptyDir
    /\ now = 0
    /\ result = NoResult

----------------------------------------------------------------------------
(* Cache.GenerateKey.  params is a Go map: ranging over it yields its keys  *)
(* in an order that changes from one run to the next, so the order is an   *)
(* input of the model.  A nil map ranges over nothing.                     *)

\* Endpoints of TestGenerateKeyConsistency
KeyEndpoints == {"/api/search", "/api/test"}

\* Parameter names, in the byte order sort.Strings compares them by
ParamNames == <<"a", "b">>

ParamSet == {ParamNames[i] : i \in DOMAIN ParamNames}

\* x < y for the strings of ParamNames
StringLess(x, y) ==
    \E i, j \in DOMAIN ParamNames : ParamNames[i] = x /\ ParamNames[j] = y /\ i < j

\* interface{} values: nil, an int, a string; Absent marks a name that is
\* not a key of the map
Nil == [t |-> "nil", s |-> <<>>, n |-> 0]

IntValue(n) == [t |-> "int", s |-> <<>>, n |-> n]

StrValue(s) == [t |-> "string", s |-> s, n |-> 0]

Absent == [t |-> "absent", s |-> <<>>, n |-> 0]

ParamValues == {Nil, IntValue(1), StrValue(<<"1", "&">>)}

\* map[string]interface{}: the nil map and the maps over ParamNames
Bags ==
    {[isNil |-> TRUE, m |-> [k \in ParamSet |-> Absent]]}
        \cup {[isNil |-> FALSE, m |-> m] : m \in [ParamSet -> ParamValues \cup {Absent}]}

\* the orders in which range can yield the keys in S
Orders(S) ==
    {o \in [1..Cardinality(S) -> S] : \A i, j \in DOMAIN o : i # j => o[i] # o[j]}

\* sort.Strings, as an insertion sort
RECURSIVE InsertString(_, _)
InsertString(sorted, x) ==
    IF sorted = <<>> THEN <<x>>
    ELSE IF StringLess(x, Head(sorted)) THEN <<x>> \o sorted
    ELSE <<Head(sorted)>> \o InsertString(Tail(sorted), x)

RECURSIVE SortStrings(_)
SortStrings(keys) ==
    IF keys = <<>> THEN <<>>
    ELSE InsertString(SortStrings(SubSeq(keys, 1, Len(keys) - 1)), keys[Len(keys)])

\* fmt.Sprintf("%v", v)
Sprintf(v) ==
    IF v.t = "int" THEN Itoa(v.n)
    ELSE IF v.t = "string" THEN v.s
    ELSE <<"<", "n", "i", "l", ">">>

\* url.Values{}: no key has a value
NoValues == [k \in ParamSet |-> [set |-> FALSE, v |-> <<>>]]

\* the nil test of the loop is left out: values.Set(k, fmt.Sprintf("%v", v))
SetParam_NilFormatted(values, k, v) ==
    IF v # Absent
    THEN [values EXCEPT ![k] = [set |-> TRUE, v |-> Sprintf(v)]]
    ELSE values

\* if v, ok := params[k]; ok && v != nil { values.Set(k, fmt.Sprintf("%v", v)) }
SetParam(values, k, v) ==
    IF v # Absent /\ v # Nil
    THEN [values EXCEPT ![k] = [set |-> TRUE, v |-> Sprintf(v)]]
    ELSE values

\* for _, k := range keys { ... }
RECURSIVE SetParams(_, _, _)
SetParams(values, keys, params) ==
    IF keys = <<>> THEN values
    ELSE SetParams(SetParam(values, Head(keys), params.m[Head(keys)]),
                   Tail(keys), params)

\* url.QueryEscape of one character: letters and digits stay, the others
\* become %XX
EscapeChar(c) ==
    IF c = "&" THEN <<"%", "2", "6">>
    ELSE IF c = "<" THEN <<"%", "3", "C">>
    ELSE IF c = ">" THEN <<"%", "3", "E">>
    ELSE <<c>>

RECURSIVE QueryEscape(_)
QueryEscape(s) ==
    IF s = <<>> THEN <<>> ELSE EscapeChar(Head(s)) \o QueryEscape(Tail(s))

\* the body of Encode's loop over the sorted keys
RECURSIVE WriteValues(_, _, _)
WriteValues(buf, keys, values) ==
    IF keys = <<>> THEN buf
    ELSE WriteValues((IF buf = <<>> THEN <<>> ELSE buf \o <<"&">>)
                         \o <<Head(keys), "=">> \o QueryEscape(values[Head(keys)].v),
                     Tail(keys), values)

\* url.Values.Encode: the keys of the map, as range yields them, are sorted
Encode(values, order) == WriteValues(<<>>, SortStrings(order), values)

\* sha256.Sum256([]byte(canonical)) in hexadecimal, cut to its first 12
\* characters: the digest is named by the text it is the digest of
Sum256Hex(canonical) == [sha256 |-> canonical, chars |-> 12]

\* GenerateKey(endpoint, params), with range yielding the keys of params as
\* iter and those of values as encIter
GenerateKey(path, params, iter, encIter) ==
    LET keys      == SortStrings(iter)
        values    == SetParams(NoValues, keys, params)
        canonical == <<path, "?">> \o Encode(values, encIter)
    IN  Sum256Hex(canonical)

NoKeys == generated = <<>>

----------------------------------------------------------------------------
(* The commands (cmd/page.go, cmd/constants.go, cmd/root.go)                *)
(* Arguments are taken to have passed the checks at the head of RunE.       *)

\* The commands run: name is the command, key the --key filter of constants.
\* The RunE of search, typeahead and edits is the one of constants without
\* --key, on another endpoint.
Commands ==
    {[name |-> "page", key |-> ""], [name |-> "constants", key |-> ""],
     [name |-> "constants", key |-> "nosuch"]}

\* the names of the constants the API returns
KnownConstants == {"version"}

CommandEndpoint(name) ==
    CASE name = "page" -> "/api/page"
      [] name = "constants" -> "/api/constants"

\* cacheKey = c.GenerateKey(endpoint, params): one key for each endpoint
\* and parameters, and so for each command run here
CacheKey(name) ==
    CASE name = "page" -> "0a1b2c3d4e5f"
      [] name = "constants" -> "f5e4d3c2b1a0"

\* the files of these keys, none existing
CommandDir ==
    [n \in {dataPath(CacheKey(c.name)) : c \in Commands}
               \cup {metaPath(CacheKey(c.name)) : c \in Commands} |-> NoFile]

\* The --no-cache flag with cache.enabled and cache.ttl of the configuration:
\* caching enabled, and each way of disabling it
Configurations ==
    {[noCache |-> FALSE, enabled |-> TRUE, ttl |-> 1],
     [noCache |-> TRUE, enabled |-> TRUE, ttl |-> 1],
     [noCache |-> FALSE, enabled |-> FALSE, ttl |-> 1],
     [noCache |-> FALSE, enabled |-> TRUE, ttl |-> 0],
     [noCache |-> FALSE, enabled |-> TRUE, ttl |-> -1]}

\* Config.IsCacheEnabled
IsCacheEnabled_IgnoresTTL(enabled, ttl) == enabled

IsCacheEnabled(enabled, ttl) == enabled /\ ttl > 0

\* Config.GetCacheTTL
GetCacheTTL(ttl) == IF ttl < 0 THEN 604800 ELSE ttl

\* What an API method returns without error: Found is a field of the page
\* response only
NoResults == [found |-> FALSE, body |-> ""]

Results(name) ==
    IF name = "page"
    THEN {[found |-> TRUE, body |-> "r"], [found |-> FALSE, body |-> "r"]}
    ELSE {[found |-> TRUE, body |-> "r"]}

\* The errors an API method returns, one of each kind
APIErrors(name) ==
    {NotFoundError(CommandEndpoint(name)), RateLimitError(Zero(IntLimbs)),
     NetworkError(MsgTimeout), ServerError(500), APIError(400, "denied"),
     ParseError}

\* json.Marshal(results)
MarshalResults(r) == <<"{", IF r.found THEN "true" ELSE "false", r.body, "}">>

\* json.Unmarshal(data, &cached): [ok, results]
UnmarshalResults(data) ==
    IF /\ Len(data) = 4
       /\ data[1] = "{"
       /\ data[2] \in {"true", "false"}
       /\ data[4] = "}"
    THEN [ok |-> TRUE, results |-> [found |-> data[2] = "true", body |-> data[3]]]
    ELSE [ok |-> FALSE, results |-> NoResults]

\* no command is being run.  store tells whether appCache was built, set
\* whether c.Set was called and setErr what it returned, printed what was
\* written to the output, apiCalls the calls of the API method, apiOK that
\* the call returned results
NoCmd ==
    [pc |-> "none", name |-> "", key |-> "", noCache |-> FALSE, enabled |-> FALSE,
     ttl |-> 0, store |-> FALSE, cacheKey |-> "", results |-> NoResults,
     data |-> <<>>, set |-> FALSE, setErr |-> "", printed |-> NoResults,
     apiCalls |-> 0, apiOK |-> FALSE]

NoRun == cmd = NoCmd

\* no process is inside Get: key is its argument, data what os.ReadFile
\* returned for the data file, found and payload what Get returned
NoReader ==
    [pc |-> "idle", key |-> "", data |-> <<>>, via |-> "", found |-> FALSE,
     payload |-> <<>>]

\* no process is inside Set: key and data are its arguments, createdAt its
\* time.Now().Unix(); overtook tells that the Set returned while a Get on
\* its key had decided to remove files and had removed none yet
NoWriter ==
    [pc |-> "idle", key |-> "", data |-> <<>>, createdAt |-> 0, err |-> "",
     overtook |-> FALSE]

NoProcs == reader = NoReader /\ writer = NoWriter

----------------------------------------------------------------------------
(* NewClient *)

NewClient(optTimeout, optMaxRetryDelay) ==
    [timeout       |-> IF optTimeout <= 0 THEN Seconds(DefaultTimeout)
                       ELSE Seconds(optTimeout),
     maxRetryDelay |-> optMaxRetryDelay]

\* no API call is made
NoCall ==
    /\ client = NewClient(0, Zero(IntLimbs))
    /\ endpoint = ""
    /\ pc = "Idle"
    /\ attempt = 0
    /\ lastErr = NoErr
    /\ resp = NoResp
    /\ sleepDuration = Zero(IntLimbs)
    /\ ret = [resp |-> NoResp, err |-> NoErr]
    /\ out = [ok |-> FALSE, err |-> NoErr]
    /\ calls = 0
    /\ trace = <<>>
    /\ slept = <<>>
    /\ elapsed = Zero(IntLimbs)

Init ==
    /\ \E t \in 0..MaxOptTimeout, d \in MaxRetryDelays : client = NewClient(t, d)
    /\ endpoint = ""
    /\ pc = "Idle"
    /\ attempt = 0
    /\ lastErr = NoErr
    /\ resp = NoResp
    /\ sleepDuration = Zero(IntLimbs)
    /\ ret = [resp |-> NoResp, err |-> NoErr]
    /\ out = [ok |-> FALSE, err |-> NoErr]
    /\ calls = 0
    /\ trace = <<>>
    /\ slept = <<>>
    /\ elapsed = Zero(IntLimbs)
    /\ NoCommand
    /\ NoCache
    /\ NoKeys
    /\ NoRun
    /\ NoProcs

----------------------------------------------------------------------------
(* The API methods: each builds its request and enters doRequest *)

Begin(path) ==
    /\ pc = "Idle"
    /\ endpoint' = path
    /\ attempt' = 0
    /\ lastErr' = NoErr
    /\ pc' = IF 0 < maxRetries THEN "Attempting" ELSE "Failed"
    /\ UNCHANGED <<client, resp, sleepDuration, ret, out, calls, trace, slept, elapsed>>
    /\ UNCHANGED <<exitVars, cacheVars, keyVars, cmdVars, procVars>>

Search == Begin("/api/full-text-search")

Page == Begin("/api/page")

Typeahead == Begin("/api/typeahead")

Constants == Begin("/api/constants")

Edits == Begin("/api/list-edit-requests")

EditsBySlug == Begin("/api/list-edit-requests-by-slug")

----------------------------------------------------------------------------
(* doRequest: one attempt of the loop, by the branch it takes *)

\* return resp, nil; the calling method then decodes the body
ReturnResp(r) ==
    /\ pc' = "Succeeded"
    /\ ret' = [resp |-> r, err |-> NoErr]
    /\ out' = IF Unmarshal(r.body) THEN [ok |-> TRUE, err |-> NoErr]
              ELSE [ok |-> FALSE, err |-> ParseError]
    /\ UNCHANGED <<attempt, sleepDuration>>

\* return nil, lastErr when an earlier attempt left one
ReturnErr_LastErr(e) ==
    /\ pc' = "Failed"
    /\ ret' = [resp |-> NoResp, err |-> IF lastErr # NoErr THEN lastErr ELSE e]
    /\ out' = [ok |-> FALSE, err |-> IF lastErr # NoErr THEN lastErr ELSE e]
    /\ UNCHANGED <<attempt, sleepDuration>>

\* return nil, e; the calling method returns e as it is
ReturnErr(e) ==
    /\ pc' = "Failed"
    /\ ret' = [resp |-> NoResp, err |-> e]
    /\ out' = [ok |-> FALSE, err |-> e]
    /\ UNCHANGED <<attempt, sleepDuration>>

\* time.Sleep(d) is pending; continue follows it
Retry(d) ==
    /\ pc' = "Retrying"
    /\ sleepDuration' = d
    /\ UNCHANGED <<attempt, ret, out>>

\* req.Execute returned the response r
Received(r) ==
    /\ pc = "Attempting"
    /\ calls' = calls + 1
    /\ trace' = Append(trace, r.status)
    /\ resp' = r
    /\ UNCHANGED <<client, endpoint, lastErr, slept, elapsed>>
    /\ UNCHANGED <<exitVars, cacheVars, keyVars, cmdVars, procVars>>

\* req.Execute returned an error: client.go lines 73-84.  An attempt that ends
\* by the client's timeout has lasted client.timeout.
ExecuteError ==
    \E msg \in Messages :
        /\ pc = "Attempting"
        /\ calls' = calls + 1
        /\ trace' = Append(trace, 0)
        /\ resp' = NoResp
        /\ lastErr' = NetworkError(msg)
        /\ elapsed' = IF msg = MsgTimeout THEN Add(elapsed, client.timeout) ELSE elapsed
        /\ IF attempt < maxRetries - 1 /\ shouldRetry(msg)
           THEN \E j \in Jitters : Retry(calculateBackoff(attempt, j))
           ELSE ReturnErr(NetworkError(msg))
        /\ UNCHANGED <<client, endpoint, slept>>
        /\ UNCHANGED <<exitVars, cacheVars, keyVars, cmdVars, procVars>>

\* case http.StatusOK
StatusOK ==
    \E body \in OKBodies :
        LET r == Response(200, <<>>, body)
        IN  Received(r) /\ ReturnResp(r)

\* a 404 handled as the retryable statuses are
StatusNotFound_Retried ==
    /\ Received(Response(404, <<>>, ""))
    /\ IF attempt < maxRetries - 1
       THEN \E j \in Jitters : Retry(calculateBackoff(attempt, j))
       ELSE ReturnErr(NotFoundError(endpoint))

\* case http.StatusNotFound
StatusNotFound ==
    /\ Received(Response(404, <<>>, ""))
    /\ ReturnErr(NotFoundError(endpoint))

\* the 429 branch giving up one attempt early
StatusTooManyRequests_EarlyError ==
    \E hdr \in Headers :
        LET r          == Response(429, hdr, "")
            retryAfter == parseRetryAfter(r)
        IN  /\ Received(r)
            /\ IF attempt < maxRetries - 2
               THEN \E j \in Jitters :
                        Retry(rateLimitSleep(retryAfter, attempt, j, client.maxRetryDelay))
               ELSE ReturnErr(RateLimitError(retryAfter))

\* case http.StatusTooManyRequests
StatusTooManyRequests ==
    \E hdr \in Headers :
        LET r          == Response(429, hdr, "")
            retryAfter == parseRetryAfter(r)
        IN  /\ Received(r)
            /\ IF attempt < maxRetries - 1
               THEN \E j \in Jitters :
                        Retry(rateLimitSleep(retryAfter, attempt, j, client.maxRetryDelay))
               ELSE ReturnErr(RateLimitError(retryAfter))

\* the server-error branch retrying on the last attempt too
StatusServerError_RetryOnLast ==
    \E status \in ServerErrorStatuses :
        /\ Received(Response(status, <<>>, ""))
        /\ IF attempt < maxRetries
           THEN \E j \in Jitters : Retry(calculateBackoff(attempt, j))
           ELSE ReturnErr(ServerError(status))

\* case http.StatusInternalServerError, http.StatusBadGateway,
\*      http.StatusServiceUnavailable
StatusServerError ==
    \E status \in ServerErrorStatuses :
        /\ Received(Response(status, <<>>, ""))
        /\ IF attempt < maxRetries - 1
           THEN \E j \in Jitters : Retry(calculateBackoff(attempt, j))
           ELSE ReturnErr(ServerError(status))

\* the default branch retrying every status >= 500
StatusDefault_RetryAll5xx ==
    \E status \in OtherStatuses, body \in ErrBodies :
        LET r == Response(status, <<>>, body)
        IN  /\ Received(r)
            /\ IF status >= 500 /\ attempt < maxRetries - 1
               THEN \E j \in Jitters : Retry(calculateBackoff(attempt, j))
               ELSE IF status >= 400
                    THEN ReturnErr(APIError(status, body))
                    ELSE ReturnResp(r)

\* default
StatusDefault ==
    \E status \in OtherStatuses, body \in ErrBodies :
        LET r == Response(status, <<>>, body)
        IN  /\ Received(r)
            /\ IF status >= 400
               THEN ReturnErr(APIError(status, body))
               ELSE ReturnResp(r)

\* continue without the time.Sleep
Sleep_NoSleep ==
    /\ pc = "Retrying"
    /\ attempt' = attempt + 1
    /\ resp' = NoResp
    /\ sleepDuration' = Zero(IntLimbs)
    /\ IF attempt + 1 < maxRetries
       THEN pc' = "Attempting" /\ UNCHANGED <<ret, out>>
       ELSE /\ pc' = "Failed"
            /\ ret' = [resp |-> NoResp, err |-> lastErr]
            /\ out' = [ok |-> FALSE, err |-> lastErr]
    /\ UNCHANGED <<client, endpoint, lastErr, calls, trace, slept, elapsed>>
    /\ UNCHANGED <<exitVars, cacheVars, keyVars, cmdVars, procVars>>

\* time.Sleep(sleepDuration); continue: the loop's attempt++ and its test, and
\* the return after the loop (client.go line 123) when the test fails
Sleep ==
    /\ pc = "Retrying"
    /\ slept' = Append(slept, sleepDuration)
    /\ elapsed' = Add(elapsed, sleepDuration)
    /\ attempt' = attempt + 1
    /\ resp' = NoResp
    /\ sleepDuration' = Zero(IntLimbs)
    /\ IF attempt + 1 < maxRetries
       THEN pc' = "Attempting" /\ UNCHANGED <<ret, out>>
       ELSE /\ pc' = "Failed"
            /\ ret' = [resp |-> NoResp, err |-> lastErr]
            /\ out' = [ok |-> FALSE, err |-> lastErr]
    /\ UNCHANGED <<client, endpoint, lastErr, calls, trace>>
    /\ UNCHANGED <<exitVars, cacheVars, keyVars, cmdVars, procVars>>

Next ==
    \/ Search
    \/ Page
    \/ Typeahead
    \/ Constants
    \/ Edits
    \/ EditsBySlug
    \/ ExecuteError
    \/ StatusOK
    \/ StatusNotFound
    \/ StatusTooManyRequests
    \/ StatusServerError
    \/ StatusDefault
    \/ Sleep

Spec == Init /\ [][Next]_vars

\* Execute returns within the client's timeout and time.Sleep returns, so a
\* step that is possible is eventually taken.
FairSpec == Spec /\ WF_vars(Next)

----------------------------------------------------------------------------
(* Execute: the exit status of the process (cmd/root.go)                   *)

ExitInit ==
    /\ NoCall
    /\ NoCache
    /\ NoKeys
    /\ NoRun
    /\ NoProcs
    /\ cmdErr \in {NilError}
                    \cup {[wraps |-> n, err |-> e] : n \in 0..MaxWraps, e \in CommandErrors}
    /\ exited = FALSE
    /\ exitCode = ExitSuccess

\* err := rootCmd.Execute(); if err != nil { os.Exit(api.GetExitCode(err)) };
\* without an error the process ends with status 0.
Execute ==
    /\ ~exited
    /\ exited' = TRUE
    /\ exitCode' = IF cmdErr # NilError THEN GetExitCode(cmdErr) ELSE ExitSuccess
    /\ UNCHANGED <<cmdErr, apiVars, cacheVars, keyVars, cmdVars, procVars>>

ExitNext == Execute

ExitSpec == ExitInit /\ [][ExitNext]_vars

----------------------------------------------------------------------------
(* Cache.Get: one action per way out of the function                       *)

GetResult(key, found, payload, via) ==
    [op |-> "Get", key |-> key, found |-> found, payload |-> payload, err |-> "",
     via |-> via]

\* os.ReadFile(dataPath) fails: return nil, false
GetNoData(key) ==
    /\ ~fs[dataPath(key)].exists
    /\ result' = GetResult(key, FALSE, <<>>, "data missing")
    /\ UNCHANGED <<cache, dir, fs, now>>
    /\ UNCHANGED <<apiVars, exitVars, keyVars, cmdVars, procVars>>

\* the data file without metadata is returned as a hit
GetNoMeta_ReturnsData(key) ==
    /\ fs[dataPath(key)].exists
    /\ ~fs[metaPath(key)].exists
    /\ result' = GetResult(key, TRUE, fs[dataPath(key)].content, "hit")
    /\ UNCHANGED <<cache, dir, fs, now>>
    /\ UNCHANGED <<apiVars, exitVars, keyVars, cmdVars, procVars>>

\* os.ReadFile(metaPath) fails: remove the data file, return nil, false
GetNoMeta(key) ==
    /\ fs[dataPath(key)].exists
    /\ ~fs[metaPath(key)].exists
    /\ fs' = Remove(fs, dataPath(key))
    /\ result' = GetResult(key, FALSE, <<>>, "metadata missing")
    /\ UNCHANGED <<cache, dir, now>>
    /\ UNCHANGED <<apiVars, exitVars, keyVars, cmdVars, procVars>>

\* json.Unmarshal fails: remove both files, return nil, false
GetCorrupt(key) ==
    /\ fs[dataPath(key)].exists
    /\ fs[metaPath(key)].exists
    /\ ~UnmarshalMetadata(fs[metaPath(key)].content).ok
    /\ fs' = Remove(Remove(fs, dataPath(key)), metaPath(key))
    /\ result' = GetResult(key, FALSE, <<>>, "metadata corrupt")
    /\ UNCHANGED <<cache, dir, now>>
    /\ UNCHANGED <<apiVars, exitVars, keyVars, cmdVars, procVars>>

\* c.ttl > 0 and age > int64(meta.TTL): remove both files, return nil, false
GetExpired(key) ==
    /\ fs[dataPath(key)].exists
    /\ fs[metaPath(key)].exists
    /\ UnmarshalMetadata(fs[metaPath(key)].content).ok
    /\ LET meta == UnmarshalMetadata(fs[metaPath(key)].content).meta
       IN  cache.ttl > 0 /\ Expired(now - meta.CreatedAt, meta.TTL)
    /\ fs' = Remove(Remove(fs, dataPath(key)), metaPath(key))
    /\ result' = GetResult(key, FALSE, <<>>, "expired")
    /\ UNCHANGED <<cache, dir, now>>
    /\ UNCHANGED <<apiVars, exitVars, keyVars, cmdVars, procVars>>

\* the metadata is not parsed before the entry is returned
GetHit_Unparsed(key) ==
    /\ fs[dataPath(key)].exists
    /\ fs[metaPath(key)].exists
    /\ LET meta == UnmarshalMetadata(fs[metaPath(key)].content).meta
       IN  ~(cache.ttl > 0 /\ Expired(now - meta.CreatedAt, meta.TTL))
    /\ result' = GetResult(key, TRUE, fs[dataPath(key)].content, "hit")
    /\ UNCHANGED <<cache, dir, fs, now>>
    /\ UNCHANGED <<apiVars, exitVars, keyVars, cmdVars, procVars>>

\* return data, true
GetHit(key) ==
    /\ fs[dataPath(key)].exists
    /\ fs[metaPath(key)].exists
    /\ UnmarshalMetadata(fs[metaPath(key)].content).ok
    /\ LET meta == UnmarshalMetadata(fs[metaPath(key)].content).meta
       IN  ~(cache.ttl > 0 /\ Expired(now - meta.CreatedAt, meta.TTL))
    /\ result' = GetResult(key, TRUE, fs[dataPath(key)].content, "hit")
    /\ UNCHANGED <<cache, dir, fs, now>>
    /\ UNCHANGED <<apiVars, exitVars, keyVars, cmdVars, procVars>>

Get(key) ==
    \/ GetNoData(key)
    \/ GetNoMeta(key)
    \/ GetCorrupt(key)
    \/ GetExpired(key)
    \/ GetHit(key)

----------------------------------------------------------------------------
(* Cache.Set: one action per way out of the function.  os.WriteFile opens  *)
(* the file truncating it and writes; it fails either at the open, leaving *)
(* the file as it was, or at the write, leaving a prefix of the content.   *)

SetResult(key, data, err) ==
    [op |-> "Set", key |-> key, found |-> FALSE, payload |-> data, err |-> err,
     via |-> ""]

\* os.MkdirAll fails: the path is a file, or the directory cannot be created
SetMkdirFails(key, data) ==
    /\ dir \in {"file", "absent"}
    /\ result' = SetResult(key, data, "failed to create cache directory")
    /\ UNCHANGED <<cache, dir, fs, now>>
    /\ UNCHANGED <<apiVars, exitVars, keyVars, cmdVars, procVars>>

\* os.WriteFile(dataPath) fails: return the error
SetDataFails(key, data) ==
    /\ dir \in {"absent", "dir"}
    /\ dir' = "dir"
    /\ \/ fs' = fs
       \/ \E left \in Torn(data) : fs' = [fs EXCEPT ![dataPath(key)] = File(left)]
    /\ result' = SetResult(key, data, "failed to write cache data")
    /\ UNCHANGED <<cache, now>>
    /\ UNCHANGED <<apiVars, exitVars, keyVars, cmdVars, procVars>>

\* os.WriteFile(metaPath) fails: remove the data file, return the error
SetMetaFails(key, data) ==
    /\ dir \in {"absent", "dir"}
    /\ dir' = "dir"
    /\ LET metaData == Marshal(CacheMetadata(now, cache.ttl))
           written  == [fs EXCEPT ![dataPath(key)] = File(data)]
       IN  \/ fs' = Remove(written, dataPath(key))
           \/ \E left \in Torn(metaData) :
                  fs' = Remove([written EXCEPT ![metaPath(key)] = File(left)],
                               dataPath(key))
    /\ result' = SetResult(key, data, "failed to write cache metadata")
    /\ UNCHANGED <<cache, now>>
    /\ UNCHANGED <<apiVars, exitVars, keyVars, cmdVars, procVars>>

\* the metadata carries the time of the epoch in place of time.Now().Unix()
SetOK_CreatedAtEpoch(key, data) ==
    /\ dir \in {"absent", "dir"}
    /\ dir' = "dir"
    /\ fs' = [fs EXCEPT ![dataPath(key)] = File(data),
                        ![metaPath(key)] = File(Marshal(CacheMetadata(0, cache.ttl)))]
    /\ result' = SetResult(key, data, "")
    /\ UNCHANGED <<cache, now>>
    /\ UNCHANGED <<apiVars, exitVars, keyVars, cmdVars, procVars>>

\* both files written: return nil
SetOK(key, data) ==
    /\ dir \in {"absent", "dir"}
    /\ dir' = "dir"
    /\ fs' = [fs EXCEPT ![dataPath(key)] = File(data),
                        ![metaPath(key)] = File(Marshal(CacheMetadata(now, cache.ttl)))]
    /\ result' = SetResult(key, data, "")
    /\ UNCHANGED <<cache, now>>
    /\ UNCHANGED <<apiVars, exitVars, keyVars, cmdVars, procVars>>

Set(key, data) ==
    \/ SetMkdirFails(key, data)
    \/ SetDataFails(key, data)
    \/ SetMetaFails(key, data)
    \/ SetOK(key, data)

----------------------------------------------------------------------------
(* Cache.Delete, Cache.Clear *)

\* only the data file is removed
Delete_DataOnly(key) ==
    /\ fs' = Remove(fs, dataPath(key))
    /\ result' = [NoResult EXCEPT !.op = "Delete", !.key = key]
    /\ UNCHANGED <<cache, dir, now>>
    /\ UNCHANGED <<apiVars, exitVars, keyVars, cmdVars, procVars>>

Delete(key) ==
    /\ fs' = Remove(Remove(fs, dataPath(key)), metaPath(key))
    /\ result' = [NoResult EXCEPT !.op = "Delete", !.key = key]
    /\ UNCHANGED <<cache, dir, now>>
    /\ UNCHANGED <<apiVars, exitVars, keyVars, cmdVars, procVars>>

\* only the files of extension .json are removed
Clear_DataOnly ==
    /\ fs' = IF dir = "dir"
             THEN [n \in Names |-> IF Ext(n) = ".json" THEN NoFile ELSE fs[n]]
             ELSE fs
    /\ result' = [NoResult EXCEPT !.op = "Clear",
                                  !.err = IF dir = "file" THEN "not a directory" ELSE ""]
    /\ UNCHANGED <<cache, dir, now>>
    /\ UNCHANGED <<apiVars, exitVars, keyVars, cmdVars, procVars>>

\* os.ReadDir(c.dir) fails: nil when the directory does not exist, the error
\* otherwise; else every entry of extension .json or .meta is removed
Clear ==
    /\ fs' = IF dir = "dir"
             THEN [n \in Names |->
                      IF Ext(n) = ".json" \/ Ext(n) = ".meta" THEN NoFile ELSE fs[n]]
             ELSE fs
    /\ result' = [NoResult EXCEPT !.op = "Clear",
                                  !.err = IF dir = "file" THEN "not a directory" ELSE ""]
    /\ UNCHANGED <<cache, dir, now>>
    /\ UNCHANGED <<apiVars, exitVars, keyVars, cmdVars, procVars>>

----------------------------------------------------------------------------
(* The surroundings of a store *)

\* one second passes
Tick ==
    /\ now < MaxNow
    /\ now' = now + 1
    /\ result' = NoResult
    /\ UNCHANGED <<cache, dir, fs>>
    /\ UNCHANGED <<apiVars, exitVars, keyVars, cmdVars, procVars>>

\* a later invocation builds its store on the same directory with the
\* time-to-live of its configuration
NewCache ==
    /\ \E ttl \in TTLs : cache' = New(CacheDir, ttl)
    /\ result' = NoResult
    /\ UNCHANGED <<dir, fs, now>>
    /\ UNCHANGED <<apiVars, exitVars, keyVars, cmdVars, procVars>>

\* os.WriteFile(metaPath, []byte("invalid json"), 0600) from outside the store
WriteGarbage(key) ==
    /\ dir = "dir"
    /\ fs' = [fs EXCEPT ![metaPath(key)] = File(Garbage)]
    /\ result' = NoResult
    /\ UNCHANGED <<cache, dir, now>>
    /\ UNCHANGED <<apiVars, exitVars, keyVars, cmdVars, procVars>>

\* The directory at the start: missing, a directory holding a file of
\* another program, or a path taken by a regular file.
CacheInit ==
    /\ NoCall
    /\ NoCommand
    /\ NoKeys
    /\ NoRun
    /\ NoProcs
    /\ \E ttl \in TTLs : cache = New(CacheDir, ttl)
    /\ dir \in {"absent", "dir", "file"}
    /\ fs = IF dir = "dir" THEN [EmptyDir EXCEPT ![Notes] = File(<<"n">>)] ELSE EmptyDir
    /\ now = 0
    /\ result = NoResult

CacheNext ==
    \/ \E key \in Keys : Get(key)
    \/ \E key \in Keys, data \in Payloads : Set(key, data)
    \/ \E key \in Keys : Delete(key)
    \/ Clear
    \/ Tick
    \/ NewCache
    \/ \E key \in Keys : WriteGarbage(key)

CacheSpec == CacheInit /\ [][CacheNext]_vars

----------------------------------------------------------------------------
(* GenerateKey called on every endpoint and parameter map, the last two     *)
(* calls being kept for comparison                                          *)

KeyInit ==
    /\ NoCall
    /\ NoCommand
    /\ NoCache
    /\ NoRun
    /\ NoProcs
    /\ generated = <<>>

\* key := c.GenerateKey(endpoint, params)
CallGenerateKey ==
    \E path \in KeyEndpoints, params \in Bags :
        \E iter \in Orders({k \in ParamSet : params.m[k] # Absent}) :
            LET values == SetParams(NoValues, SortStrings(iter), params)
            IN  \E encIter \in Orders({k \in ParamSet : values[k].set}) :
                    /\ generated' =
                           Append(IF Len(generated) = 2 THEN Tail(generated)
                                  ELSE generated,
                                  [endpoint |-> path,
                                   params   |-> params,
                                   iter     |-> iter,
                                   key      |-> GenerateKey(path, params,
                                                            iter, encIter)])
                    /\ UNCHANGED <<apiVars, exitVars, cacheVars, cmdVars, procVars>>

KeyNext == CallGenerateKey

KeySpec == KeyInit /\ [][KeyNext]_vars

----------------------------------------------------------------------------
(* Two processes on one cache directory, one inside Get and one inside Set, *)
(* each file operation being a step of its own.  os.ReadFile returns the   *)
(* content the file has at that moment; os.WriteFile opens the file, which *)
(* truncates it, and then writes; os.Remove removes the file the path      *)
(* names at that moment.                                                   *)

\* c.Get(key) is entered
CallGet(key) ==
    /\ reader.pc = "idle"
    /\ reader' = [reader EXCEPT !.pc = "ReadFile(dataPath)", !.key = key]
    /\ UNCHANGED <<writer, cache, dir, fs, now, result>>
    /\ UNCHANGED <<apiVars, exitVars, keyVars, cmdVars>>

\* data, err := os.ReadFile(dataPath); if err != nil { return nil, false }
GetReadData ==
    /\ reader.pc = "ReadFile(dataPath)"
    /\ reader' = IF fs[dataPath(reader.key)].exists
                 THEN [reader EXCEPT !.pc = "ReadFile(metaPath)",
                                     !.data = fs[dataPath(reader.key)].content]
                 ELSE [reader EXCEPT !.pc = "returned", !.via = "data missing"]
    /\ UNCHANGED <<writer, cache, dir, fs, now, result>>
    /\ UNCHANGED <<apiVars, exitVars, keyVars, cmdVars>>

\* metaData, err := os.ReadFile(metaPath), json.Unmarshal and the expiry
\* test with time.Now(): the branch Get takes
GetReadMeta ==
    /\ reader.pc = "ReadFile(metaPath)"
    /\ LET meta     == fs[metaPath(reader.key)]
           parsed   == UnmarshalMetadata(meta.content)
       IN  reader' =
             IF ~meta.exists
             THEN [reader EXCEPT !.pc = "Remove(dataPath)", !.via = "metadata missing"]
             ELSE IF ~parsed.ok
             THEN [reader EXCEPT !.pc = "Remove(dataPath)", !.via = "metadata corrupt"]
             ELSE IF cache.ttl > 0 /\ Expired(now - parsed.meta.CreatedAt, parsed.meta.TTL)
             THEN [reader EXCEPT !.pc = "Remove(dataPath)", !.via = "expired"]
             ELSE [reader EXCEPT !.pc = "returned", !.via = "hit", !.found = TRUE,
                                 !.payload = reader.data]
    /\ UNCHANGED <<writer, cache, dir, fs, now, result>>
    /\ UNCHANGED <<apiVars, exitVars, keyVars, cmdVars>>

\* os.Remove(dataPath); without metadata Get returns after it
GetRemoveData ==
    /\ reader.pc = "Remove(dataPath)"
    /\ fs' = Remove(fs, dataPath(reader.key))
    /\ reader' = [reader EXCEPT !.pc = IF reader.via = "metadata missing"
                                        THEN "returned" ELSE "Remove(metaPath)"]
    /\ UNCHANGED <<writer, cache, dir, now, result>>
    /\ UNCHANGED <<apiVars, exitVars, keyVars, cmdVars>>

\* os.Remove(metaPath); return nil, false
GetRemoveMeta ==
    /\ reader.pc = "Remove(metaPath)"
    /\ fs' = Remove(fs, metaPath(reader.key))
    /\ reader' = [reader EXCEPT !.pc = "returned"]
    /\ UNCHANGED <<writer, cache, dir, now, result>>
    /\ UNCHANGED <<apiVars, exitVars, keyVars, cmdVars>>

\* c.Set(key, data) is entered
CallSet(key, data) ==
    /\ writer.pc = "idle"
    /\ writer' = [writer EXCEPT !.pc = "MkdirAll", !.key = key, !.data = data]
    /\ UNCHANGED <<reader, cache, dir, fs, now, result>>
    /\ UNCHANGED <<apiVars, exitVars, keyVars, cmdVars>>

\* os.MkdirAll(c.dir, 0700)
SetMkdirAll ==
    /\ writer.pc = "MkdirAll"
    /\ IF dir = "file"
       THEN /\ writer' = [writer EXCEPT !.pc = "returned",
                                         !.err = "failed to create cache directory"]
            /\ dir' = dir
       ELSE /\ writer' = [writer EXCEPT !.pc = "open(dataPath)"]
            /\ dir' = "dir"
    /\ UNCHANGED <<reader, cache, fs, now, result>>
    /\ UNCHANGED <<apiVars, exitVars, keyVars, cmdVars>>

\* os.WriteFile(dataPath, data, 0600): the open with O_TRUNC
SetOpenData ==
    /\ writer.pc = "open(dataPath)"
    /\ fs' = [fs EXCEPT ![dataPath(writer.key)] = File(<<>>)]
    /\ writer' = [writer EXCEPT !.pc = "write(dataPath)"]
    /\ UNCHANGED <<reader, cache, dir, now, result>>
    /\ UNCHANGED <<apiVars, exitVars, keyVars, cmdVars>>

\* os.WriteFile(dataPath, data, 0600): the write; then time.Now().Unix()
SetWriteData ==
    /\ writer.pc = "write(dataPath)"
    /\ fs' = [fs EXCEPT ![dataPath(writer.key)] = File(writer.data)]
    /\ writer' = [writer EXCEPT !.pc = "open(metaPath)", !.createdAt = now]
    /\ UNCHANGED <<reader, cache, dir, now, result>>
    /\ UNCHANGED <<apiVars, exitVars, keyVars, cmdVars>>

\* os.WriteFile(metaPath, metaData, 0600): the open with O_TRUNC
SetOpenMeta ==
    /\ writer.pc = "open(metaPath)"
    /\ fs' = [fs EXCEPT ![metaPath(writer.key)] = File(<<>>)]
    /\ writer' = [writer EXCEPT !.pc = "write(metaPath)"]
    /\ UNCHANGED <<reader, cache, dir, now, result>>
    /\ UNCHANGED <<apiVars, exitVars, keyVars, cmdVars>>

\* os.WriteFile(metaPath, metaData, 0600): the write; return nil
SetWriteMeta ==
    /\ writer.pc = "write(metaPath)"
    /\ fs' = [fs EXCEPT ![metaPath(writer.key)] =
                            File(Marshal(CacheMetadata(writer.createdAt, cache.ttl)))]
    /\ writer' = [writer EXCEPT !.pc = "returned",
                                 !.overtook = /\ reader.pc = "Remove(dataPath)"
                                              /\ reader.key = writer.key]
    /\ UNCHANGED <<reader, cache, dir, now, result>>
    /\ UNCHANGED <<apiVars, exitVars, keyVars, cmdVars>>

\* The directory at the start, as earlier stores left it: missing, or
\* holding for some keys an entry written at time 0, whole, with metadata
\* that does not parse, or without metadata.
ProcInit ==
    /\ NoCall
    /\ NoCommand
    /\ NoKeys
    /\ NoRun
    /\ NoProcs
    /\ \E ttl \in TTLs : cache = New(CacheDir, ttl)
    /\ now = 0
    /\ result = NoResult
    /\ \/ dir = "absent" /\ fs = EmptyDir
       \/ /\ dir = "dir"
          /\ \E key \in Keys, data \in Payloads :
                \E metaFile \in {NoFile, File(Garbage),
                                 File(Marshal(CacheMetadata(0, cache.ttl)))} :
                    fs = [EmptyDir EXCEPT ![dataPath(key)] = File(data),
                                          ![metaPath(key)] = metaFile]

ProcNext ==
    \/ \E key \in Keys : CallGet(key)
    \/ GetReadData
    \/ GetReadMeta
    \/ GetRemoveData
    \/ GetRemoveMeta
    \/ \E key \in Keys, data \in Payloads : CallSet(key, data)
    \/ SetMkdirAll
    \/ SetOpenData
    \/ SetWriteData
    \/ SetOpenMeta
    \/ SetWriteMeta
    \/ Tick

ProcSpec == ProcInit /\ [][ProcNext]_vars

----------------------------------------------------------------------------
(* One command after the other on one cache directory: PersistentPreRunE,  *)
(* the RunE of the command, and Execute ending the process.                *)

\* PersistentPreRunE builds appCache when caching is enabled; RunE begins
RunCommand(c, noCache, enabled, ttl) ==
    /\ cmd.pc = "idle" \/ (cmd.pc = "returned" /\ exited)
    /\ LET store == ~noCache /\ IsCacheEnabled(enabled, ttl)
       IN  /\ cache' = IF store THEN New(CacheDir, GetCacheTTL(ttl)) ELSE cache
           /\ cmd' = [NoCmd EXCEPT !.pc = IF store THEN "Get" ELSE "call",
                                   !.name = c.name,
                                   !.key = c.key,
                                   !.noCache = noCache,
                                   !.enabled = enabled,
                                   !.ttl = ttl,
                                   !.store = store,
                                   !.cacheKey = IF store THEN CacheKey(c.name) ELSE ""]
    /\ result' = NoResult
    /\ cmdErr' = NilError
    /\ exited' = FALSE
    /\ exitCode' = ExitSuccess
    /\ UNCHANGED <<dir, fs, now>>
    /\ UNCHANGED <<apiVars, keyVars, procVars>>

\* data, found := c.Get(cacheKey)
Lookup ==
    /\ cmd.pc = "Get"
    /\ result = NoResult
    /\ Get(cmd.cacheKey)

\* if found and json.Unmarshal(data, &cached) == nil, the cached results
\* are output; otherwise the API is called
Decode ==
    /\ cmd.pc = "Get"
    /\ result.op = "Get"
    /\ LET cached == UnmarshalResults(result.payload)
       IN  cmd' = IF result.found /\ cached.ok
                  THEN [cmd EXCEPT !.pc = "output", !.results = cached.results]
                  ELSE [cmd EXCEPT !.pc = "call"]
    /\ UNCHANGED <<apiVars, exitVars, cacheVars, keyVars, procVars>>

\* return err
Return(e) ==
    /\ cmd' = [cmd EXCEPT !.pc = "returned", !.apiCalls = @ + 1]
    /\ cmdErr' = [wraps |-> 0, err |-> e]

\* the response is cached before the test of Found
CallAPI_CachesNotFound ==
    /\ cmd.pc = "call"
    /\ \/ \E e \in APIErrors(cmd.name) : Return(e)
       \/ \E r \in Results(cmd.name) :
             IF cmd.store /\ cmd.cacheKey # ""
             THEN /\ cmd' = [cmd EXCEPT !.pc = "Set", !.results = r,
                                        !.data = MarshalResults(r),
                                        !.apiCalls = @ + 1, !.apiOK = TRUE]
                  /\ cmdErr' = cmdErr
             ELSE IF cmd.name = "page" /\ ~r.found
             THEN Return(NotFoundError("slug"))
             ELSE /\ cmd' = [cmd EXCEPT !.pc = "output", !.results = r,
                                        !.apiCalls = @ + 1, !.apiOK = TRUE]
                  /\ cmdErr' = cmdErr
    /\ result' = NoResult
    /\ UNCHANGED <<cache, dir, fs, now, exited, exitCode>>
    /\ UNCHANGED <<apiVars, keyVars, procVars>>

\* the output follows the API call at once, c.Set is not called
CallAPI_NoSet ==
    /\ cmd.pc = "call"
    /\ \/ \E e \in APIErrors(cmd.name) : Return(e)
       \/ \E r \in Results(cmd.name) :
             IF cmd.name = "page" /\ ~r.found
             THEN Return(NotFoundError("slug"))
             ELSE /\ cmd' = [cmd EXCEPT !.pc = "output", !.results = r,
                                        !.apiCalls = @ + 1, !.apiOK = TRUE]
                  /\ cmdErr' = cmdErr
    /\ result' = NoResult
    /\ UNCHANGED <<cache, dir, fs, now, exited, exitCode>>
    /\ UNCHANGED <<apiVars, keyVars, procVars>>

\* results, err := client.Constants() (client.Page(...)); if err != nil
\* { return err }; page: if !result.Found { return &api.NotFoundError{...} };
\* then json.Marshal(results) for c.Set when there is a store
CallAPI ==
    /\ cmd.pc = "call"
    /\ \/ \E e \in APIErrors(cmd.name) : Return(e)
       \/ \E r \in Results(cmd.name) :
             IF cmd.name = "page" /\ ~r.found
             THEN Return(NotFoundError("slug"))
             ELSE IF cmd.store /\ cmd.cacheKey # ""
             THEN /\ cmd' = [cmd EXCEPT !.pc = "Set", !.results = r,
                                        !.data = MarshalResults(r),
                                        !.apiCalls = @ + 1, !.apiOK = TRUE]
                  /\ cmdErr' = cmdErr
             ELSE /\ cmd' = [cmd EXCEPT !.pc = "output", !.results = r,
                                        !.apiCalls = @ + 1, !.apiOK = TRUE]
                  /\ cmdErr' = cmdErr
    /\ result' = NoResult
    /\ UNCHANGED <<cache, dir, fs, now, exited, exitCode>>
    /\ UNCHANGED <<apiVars, keyVars, procVars>>

\* c.Set(cacheKey, data)
Store ==
    /\ cmd.pc = "Set"
    /\ result = NoResult
    /\ Set(cmd.cacheKey, cmd.data)

\* the error of c.Set is returned by the command
Stored_ReturnsError ==
    /\ cmd.pc = "Set"
    /\ result.op = "Set"
    /\ cmd' = [cmd EXCEPT !.pc = IF result.err = "" THEN "output" ELSE "returned",
                          !.set = TRUE, !.setErr = result.err]
    /\ cmdErr' = IF result.err = "" THEN cmdErr ELSE [wraps |-> 1, err |-> GenericError]
    /\ UNCHANGED <<exited, exitCode>>
    /\ UNCHANGED <<apiVars, cacheVars, keyVars, procVars>>

\* _ = c.Set(cacheKey, data): what Set returned is dropped
Stored ==
    /\ cmd.pc = "Set"
    /\ result.op = "Set"
    /\ cmd' = [cmd EXCEPT !.pc = "output", !.set = TRUE, !.setErr = result.err]
    /\ cmdErr' = cmdErr
    /\ UNCHANGED <<exited, exitCode>>
    /\ UNCHANGED <<apiVars, cacheVars, keyVars, procVars>>

\* return outputConstantsResults(...) (outputPageResults(...)):
\* constants with a --key that is not a key of the results returns
\* &api.UnknownConstantError{Key: key} and writes nothing
Output ==
    /\ cmd.pc = "output"
    /\ IF cmd.name = "constants" /\ cmd.key # "" /\ cmd.key \notin KnownConstants
       THEN /\ cmd' = [cmd EXCEPT !.pc = "returned"]
            /\ cmdErr' = [wraps |-> 0, err |-> UnknownConstantError]
       ELSE /\ cmd' = [cmd EXCEPT !.pc = "returned", !.printed = cmd.results]
            /\ cmdErr' = NilError
    /\ UNCHANGED <<exited, exitCode>>
    /\ UNCHANGED <<apiVars, cacheVars, keyVars, procVars>>

\* func Execute(): the process ends with the status of the error
Exit ==
    /\ cmd.pc = "returned"
    /\ Execute

\* time passes between two commands
Pass ==
    /\ cmd.pc = "idle" \/ exited
    /\ Tick

\* between two commands the payload of an entry is overwritten from outside
\* with bytes that are not a response of the API
Corrupt ==
    /\ cmd.pc = "idle" \/ exited
    /\ \E c \in Commands :
           /\ fs[dataPath(CacheKey(c.name))].exists
           /\ fs' = [fs EXCEPT ![dataPath(CacheKey(c.name))] = File(Garbage)]
    /\ result' = NoResult
    /\ UNCHANGED <<cache, dir, now>>
    /\ UNCHANGED <<apiVars, exitVars, keyVars, cmdVars, procVars>>

CmdInit ==
    /\ NoCall
    /\ NoCommand
    /\ NoKeys
    /\ NoProcs
    /\ cmd = [NoCmd EXCEPT !.pc = "idle"]
    /\ cache = New(CacheDir, 0)
    /\ dir = "absent"
    /\ fs = CommandDir
    /\ now = 0
    /\ result = NoResult

CmdNext ==
    \/ \E c \in Commands, f \in Configurations :
          RunCommand(c, f.noCache, f.enabled, f.ttl)
    \/ Lookup
    \/ Decode
    \/ CallAPI
    \/ Store
    \/ Stored
    \/ Output
    \/ Exit
    \/ Pass
    \/ Corrupt

CmdSpec == CmdInit /\ [][CmdNext]_vars

----------------------------------------------------------------------------
(* Vocabulary of the properties *)

Last(s) == s[Len(s)]

Terminal == pc \in {"Succeeded", "Failed"}

\* a <= b as signed integers
LessEq(a, b) == ~Less(b, a)

TenMillis == MulAdd(Millisecond, 10, 0)

----------------------------------------------------------------------------
\* C1: when every attempt so far received 500, 502 or 503, the call is still
\* running while fewer than 3 HTTP calls were issued, and with the third it
\* has failed with the server error of that third response: exactly 3 calls
\* and 2 sleeps, never a return before the third and never a fourth call.
C1_RetryCeiling ==
    (trace # <<>> /\ \A i \in 1..Len(trace) : trace[i] \in ServerErrorStatuses) =>
        /\ calls = Len(trace)
        /\ calls <= 3
        /\ calls < 3 => pc \in {"Retrying", "Attempting"}
        /\ calls = 3 => /\ pc = "Failed"
                        /\ ret = [resp |-> NoResp, err |-> ServerError(trace[3])]
                        /\ Len(slept) = 2

C1_Witness ==
    /\ trace = <<500, 500, 500>>
    /\ pc = "Failed"
    /\ calls = 3
    /\ ret.err = ServerError(500)

\* C2: a 404 on any attempt is the last attempt of its call: the call has
\* failed with NotFound for the endpoint, no sleep follows it and no further
\* HTTP call is made; a 404 on the first attempt leaves 1 call and no sleep.
C2_NotFoundTerminal ==
    \A i \in 1..Len(trace) :
        trace[i] = 404 =>
            /\ i = Len(trace)
            /\ calls = i
            /\ pc = "Failed"
            /\ ret = [resp |-> NoResp, err |-> NotFoundError(endpoint)]
            /\ Len(slept) = i - 1

C2_Witness ==
    /\ trace = <<404>>
    /\ calls = 1
    /\ slept = <<>>
    /\ pc = "Failed"
    /\ ret.err = NotFoundError("/api/page")

\* C3: whatever the attempts met, at most 3 HTTP calls are issued and the
\* attempt index is 0, 1 or 2; every attempt of any kind uses the one
\* counter: the calls issued are the index (before the attempt) or the index
\* plus one (after it), on every endpoint.
C3_AttemptBudget ==
    /\ calls <= 3
    /\ attempt \in {0, 1, 2}
    /\ calls = Len(trace)
    /\ Len(slept) = attempt
    /\ pc \in {"Idle", "Attempting"} => calls = attempt
    /\ pc \in {"Retrying", "Succeeded", "Failed"} => calls = attempt + 1

C3_Witness ==
    /\ trace = <<0, 429, 503>>
    /\ pc = "Failed"
    /\ attempt = 2
    /\ endpoint = "/api/typeahead"

\* The attempt that just ended was cut by the client's timeout.
TimedOut == trace # <<>> /\ Last(trace) = 0 /\ lastErr = NetworkError(MsgTimeout)

\* C4 (as claimed): once an attempt has timed out, or the time spent has
\* exceeded the timeout, no further HTTP call is issued.
C4_OverallDeadline ==
    [][(TimedOut \/ Less(client.timeout, elapsed)) => calls' = calls]_vars

\* C4 (amended): the timeout bounds each attempt by itself.  A timed-out
\* attempt has lasted the timeout and is a Network error; it is retried
\* while attempts remain, so it ends the call only as the third attempt.
C4_PerAttemptTimeout ==
    (TimedOut /\ pc # "Attempting") =>
        /\ LessEq(client.timeout, elapsed)
        /\ calls < 3 => pc = "Retrying"
        /\ calls = 3 => pc = "Failed" /\ ret.err = NetworkError(MsgTimeout)

C4_Witness ==
    /\ pc = "Failed"
    /\ trace = <<0, 0, 0>>
    /\ ret.err = NetworkError(MsgTimeout)
    /\ LessEq(MulAdd(client.timeout, 3, 0), elapsed)

\* C5: the request state machine.  An attempt issues one HTTP call and ends
\* the call or goes to Retrying; Retrying sleeps once and returns to
\* Attempting with the index incremented by one; nothing changes once the
\* call has Succeeded or Failed; and every call that was begun ends.
C5_StateMachine ==
    /\ [][/\ pc = "Idle" => pc' = "Attempting" /\ attempt' = 0 /\ calls' = calls
          /\ pc = "Attempting" =>
                /\ pc' \in {"Succeeded", "Retrying", "Failed"}
                /\ calls' = calls + 1
                /\ attempt' = attempt
                /\ slept' = slept
          /\ pc = "Retrying" =>
                /\ pc' = "Attempting"
                /\ attempt' = attempt + 1
                /\ calls' = calls
                /\ Len(slept') = Len(slept) + 1
          /\ Terminal => FALSE]_vars
    /\ (pc = "Attempting") ~> Terminal

C5_Witness ==
    /\ pc = "Succeeded"
    /\ attempt = 2
    /\ calls = 3
    /\ Len(slept) = 2
    /\ ret.err = NoErr

\* The exact number of nanoseconds of n seconds, n >= 0, as a wide integer.
ExactSeconds(n) == MulBillion(Widen(n, WideLimbs))

\* The exact value of a string of digits; Zero for anything else.
DigitsValue(h) ==
    IF h # <<>> /\ \A i \in 1..Len(h) : IsDigit(h[i])
    THEN Magnitude(Zero(WideLimbs), h)
    ELSE Zero(WideLimbs)

\* d is a value of backoff(a): 0 for a = 0, else 2^(a-1) s plus less than 1 s.
IsBackoff(d, a) ==
    IF a = 0 THEN d = Zero(WideLimbs)
    ELSE /\ ~ULess(d, Widen(Seconds(2 ^ (a - 1)), WideLimbs))
         /\ ULess(d, Widen(Seconds(2 ^ (a - 1) + 1), WideLimbs))

\* C6 (as claimed): the sleep pending after a 429 with attempts remaining is
\* the hint in seconds when the parsed hint is positive and a value of
\* backoff(attempt) otherwise, replaced by the maximum retry delay when one
\* is configured and that delay exceeds it; so it never exceeds the maximum.
C6_RateLimitDelay ==
    (pc = "Retrying" /\ Last(trace) = 429) =>
        LET hint   == parseRetryAfter(resp)
            max    == Widen(client.maxRetryDelay, WideLimbs)
            capped == IsPos(client.maxRetryDelay)
            sleep  == Widen(sleepDuration, WideLimbs)
            Fits(d) == ~capped \/ ~ULess(max, d)
        IN  /\ ~IsNeg(sleepDuration)
            /\ capped => LessEq(sleepDuration, client.maxRetryDelay)
            /\ IF IsPos(hint)
               THEN sleep = IF Fits(ExactSeconds(hint)) THEN ExactSeconds(hint) ELSE max
               ELSE \/ IsBackoff(sleep, attempt) /\ Fits(sleep)
                    \/ /\ sleep = max
                       /\ capped
                       /\ attempt > 0
                       /\ ULess(max, Widen(Seconds(2 ^ (attempt - 1) + 1), WideLimbs))

\* C7: a RateLimited error is returned only by the third attempt, on a 429,
\* and carries the hint parsed from that third response, whatever the sleeps
\* were clamped to; three 429s in a row end in it.
C7_RateLimitExhaustion ==
    /\ ret.err.type = "RateLimitError" =>
          /\ pc = "Failed"
          /\ calls = 3
          /\ trace[3] = 429
          /\ resp.status = 429
          /\ ret.err = RateLimitError(parseRetryAfter(resp))
    /\ \A i \in 1..Len(trace) :
          trace[i] = 429 =>
              IF i < 3 THEN pc = "Retrying" \/ Len(trace) > i \/ Len(slept) = i
              ELSE pc = "Failed" /\ ret.err.type = "RateLimitError"

C7_Witness ==
    /\ pc = "Failed"
    /\ trace = <<429, 429, 429>>
    /\ client.maxRetryDelay = TenMillis
    /\ slept = <<TenMillis, TenMillis>>
    /\ resp.retryAfter = HdrSixty
    /\ ret.err = RateLimitError(FromNat(60, IntLimbs))

\* C8 (as claimed): the retry-after of a RateLimited error is the value of the
\* Retry-After header of the response when that is a string of decimal
\* digits, and 0 otherwise; it is never negative.
C8_RetryAfterNonNegative ==
    ret.err.type = "RateLimitError" =>
        /\ ~IsNeg(ret.err.RetryAfter)
        /\ Widen(ret.err.RetryAfter, WideLimbs) = DigitsValue(resp.retryAfter)

\* C9: a status of the default branch that is >= 400 ends the call on the
\* attempt that received it, with the error carrying that status and the
\* body of that response; no sleep and no attempt follow it.
C9_GenericTerminal ==
    \A i \in 1..Len(trace) :
        (trace[i] >= 400 /\ trace[i] \notin {404, 429, 500, 502, 503}) =>
            /\ i = Len(trace)
            /\ calls = i
            /\ Len(slept) = i - 1
            /\ pc = "Failed"
            /\ resp.status = trace[i]
            /\ ret = [resp |-> NoResp, err |-> APIError(trace[i], resp.body)]

C9_Witness ==
    /\ pc = "Failed"
    /\ trace = <<503, 504>>
    /\ Len(slept) = 1
    /\ ret.err = APIError(504, "denied")

\* The transport failures that are a timeout, a refused connection, an
\* unknown host or a temporary condition.
RetryableMessages == {MsgTimeout, MsgRefused, MsgNoHost, MsgTemporary}

\* C10: a transport failure is a Network error with the failure's text; it
\* is followed by a retry, after a sleep of backoff(attempt), exactly when it
\* is not the third attempt and is of a retryable kind; otherwise the call
\* has failed with that Network error.
C10_TransportFailures ==
    (trace # <<>> /\ Last(trace) = 0 /\ pc # "Attempting") =>
        /\ lastErr.type = "NetworkError"
        /\ lastErr.Message \in Messages
        /\ calls = Len(trace)
        /\ pc \in {"Retrying", "Failed"}
        /\ pc = "Retrying" <=> (calls < 3 /\ lastErr.Message \in RetryableMessages)
        /\ pc = "Retrying" => IsBackoff(Widen(sleepDuration, WideLimbs), attempt)
        /\ pc = "Failed" => ret = [resp |-> NoResp, err |-> lastErr]

C10_Witness ==
    /\ pc = "Failed"
    /\ trace = <<0, 0, 0>>
    /\ Len(slept) = 2
    /\ ret.err = NetworkError(MsgTemporary)

----------------------------------------------------------------------------
(* C11: the backoff *)

\* The failures after which doRequest sleeps the backoff whatever the headers
BackoffFailures == {0} \cup ServerErrorStatuses

----------------------------------------------------------------------------
(* C12: the exit status *)

\* C12 (as claimed): the process ends with 0 without an error, 2 for a
\* NotFound error, 3 for a RateLimit error, 4 for an InvalidArgs error and 1
\* for any other error, whether or not the error is wrapped.
C12_ExitClassification ==
    exited =>
        exitCode = IF cmdErr = NilError THEN 0
                   ELSE CASE cmdErr.err.type = "NotFoundError" -> 2
                          [] cmdErr.err.type = "RateLimitError" -> 3
                          [] cmdErr.err.type = "InvalidArgsError" -> 4
                          [] OTHER -> 1

\* C12 (amended): as claimed, except that an UnknownConstant error ends the
\* process with 2; GetExitCode gives 0 for the nil error.
C12_ExitClassificationByType ==
    /\ GetExitCode(NilError) = 0
    /\ exited =>
          exitCode = IF cmdErr = NilError THEN 0
                     ELSE CASE cmdErr.err.type \in {"NotFoundError", "UnknownConstantError"} -> 2
                            [] cmdErr.err.type = "RateLimitError" -> 3
                            [] cmdErr.err.type = "InvalidArgsError" -> 4
                            [] OTHER -> 1

C12_Witness ==
    /\ exited
    /\ cmdErr.wraps > 0
    /\ cmdErr.err.type = "RateLimitError"
    /\ exitCode = 3

----------------------------------------------------------------------------
(* The cache: vocabulary of the properties *)

\* the metadata of key as Get would parse it
Parsed(key) == UnmarshalMetadata(fs[metaPath(key)].content)

\* both files of key exist and the metadata parses
Intact(key) ==
    /\ fs[dataPath(key)].exists
    /\ fs[metaPath(key)].exists
    /\ Parsed(key).ok

\* now - createdAt
Age(key) == now - Parsed(key).meta.CreatedAt

\* neither file of key exists in f
Gone(f, key) == ~f[dataPath(key)].exists /\ ~f[metaPath(key)].exists

\* this step is Get(key)
GetStep(key) == result'.op = "Get" /\ result'.key = key

\* the file names Clear manages
Managed == {n \in Names : Ext(n) \in {".json", ".meta"}}

\* C13: a Get(k) that directly follows a Set(k, p) that returned no error
\* returns (p, true); p is the payload of the most recent Set on k.
C13_RoundTrip ==
    [][(result.op = "Set" /\ result.err = "" /\ GetStep(result.key)) =>
           /\ result'.found
           /\ result'.payload = result.payload
           /\ result'.payload \in Payloads]_vars

C13_Witness ==
    /\ result.op = "Get"
    /\ result.found
    /\ result.payload = <<"1", "2">>
    /\ now > 0
    /\ Age(result.key) = 0

\* C14: a store with ttl > 0 returns an intact entry, leaving its files,
\* while its age is at most the ttl of the entry, the age equal to the ttl
\* included; once the age exceeds it Get returns found = false and has
\* removed both files.
C14_Expiry ==
    [][\A key \in Keys :
          (GetStep(key) /\ cache.ttl > 0 /\ Intact(key)) =>
              IF Age(key) <= Parsed(key).meta.TTL
              THEN /\ result'.found
                   /\ result'.payload = fs[dataPath(key)].content
                   /\ fs' = fs
              ELSE /\ ~result'.found
                   /\ Gone(fs', key)]_vars

C14_Witness ==
    /\ result.op = "Get"
    /\ result.via = "expired"
    /\ ~result.found
    /\ Gone(fs, result.key)
    /\ cache.ttl > 0

\* C15 (as claimed): when the metadata file of k exists and does not parse,
\* Get(k) returns found = false and leaves neither file of k; a Get(k) on a
\* key without files is a miss that changes nothing.
C15_CorruptionSelfHeal ==
    [][\A key \in Keys :
          /\ (GetStep(key) /\ fs[metaPath(key)].exists /\ ~Parsed(key).ok) =>
                 ~result'.found /\ Gone(fs', key)
          /\ (GetStep(key) /\ Gone(fs, key)) =>
                 ~result'.found /\ fs' = fs]_vars

\* C16: when the data file of k exists and its metadata file does not,
\* Get(k) returns found = false and removes the data file; no Get returns a
\* payload whose metadata file is missing.
C16_OrphanPayload ==
    [][\A key \in Keys :
          GetStep(key) =>
              /\ (fs[dataPath(key)].exists /\ ~fs[metaPath(key)].exists) =>
                     ~result'.found /\ fs' = Remove(fs, dataPath(key))
              /\ result'.found => fs[metaPath(key)].exists]_vars

C16_Witness ==
    /\ result.op = "Get"
    /\ result.via = "metadata missing"
    /\ ~result.found
    /\ Gone(fs, result.key)

\* C17: a Get that returned found = true leaves the data file and a
\* metadata file that parses, the entry is not expired or the store's ttl is
\* not positive, and the payload returned is the content of the data file; a
\* Get reports no error, and no payload with found = false.
C17_GetSoundness ==
    result.op = "Get" =>
        /\ result.err = ""
        /\ ~result.found => result.payload = <<>>
        /\ result.found =>
              /\ Intact(result.key)
              /\ cache.ttl <= 0 \/ Age(result.key) <= Parsed(result.key).meta.TTL
              /\ result.payload = fs[dataPath(result.key)].content

C17_Witness ==
    /\ result.op = "Get"
    /\ result.found
    /\ cache.ttl <= 0
    /\ Age(result.key) > Parsed(result.key).meta.TTL

\* C18 (as claimed): a Set that fails to write the metadata leaves no data
\* file of k; after any Set that returned an error a data file of k exists
\* only with metadata that parses, and a Get(k) that directly follows
\* returns found = false.
C18_SetFailureAtomicity ==
    [][/\ (result'.op = "Set" /\ result'.err = "failed to write cache metadata") =>
              ~fs'[dataPath(result'.key)].exists
       /\ (result'.op = "Set" /\ result'.err # "") =>
              (fs'[dataPath(result'.key)].exists =>
                   /\ fs'[metaPath(result'.key)].exists
                   /\ UnmarshalMetadata(fs'[metaPath(result'.key)].content).ok)
       /\ (result.op = "Set" /\ result.err # "" /\ GetStep(result.key)) =>
              ~result'.found]_vars

\* C19: Delete(k) returns no error and leaves neither file of k, whatever
\* files of k existed; every other file is unchanged; a Get(k) that directly
\* follows returns found = false.
C19_Delete ==
    [][/\ \A key \in Keys :
             (result'.op = "Delete" /\ result'.key = key) =>
                 /\ result'.err = ""
                 /\ Gone(fs', key)
                 /\ \A n \in Names \ {dataPath(key), metaPath(key)} : fs'[n] = fs[n]
                 /\ dir' = dir
       /\ (result.op = "Delete" /\ GetStep(result.key)) => ~result'.found]_vars

C19_Witness ==
    /\ result.op = "Delete"
    /\ Gone(fs, result.key)
    /\ \E key \in Keys \ {result.key} : Intact(key)
    /\ fs[Notes].exists

C22_OrphanMetadata ==
    [][\A key \in Keys :
          GetStep(key) =>
              /\ (fs[metaPath(key)].exists /\ ~fs[dataPath(key)].exists) =>
                     ~result'.found /\ ~fs'[metaPath(key)].exists
              /\ ~result'.found => Gone(fs', key)]_vars

\* C28: expiry uses the ttl stored with the entry.  On an intact entry a
\* store of ttl > 0 returns found = true exactly when the age is at most the
\* ttl of the entry's metadata, whatever the ttl of the reading store; a
\* store of ttl <= 0 skips the check and returns the entry, whatever its age,
\* and removes nothing.
C28_EntryTTL ==
    [][\A key \in Keys :
          (GetStep(key) /\ Intact(key)) =>
              /\ cache.ttl > 0 =>
                     /\ result'.found <=> Age(key) <= Parsed(key).meta.TTL
                     /\ ~result'.found => Gone(fs', key)
              /\ cache.ttl <= 0 =>
                     /\ result'.found
                     /\ result'.payload = fs[dataPath(key)].content
                     /\ fs' = fs]_vars

\* an entry was found expired at an age the reading store's ttl would allow
C28_Witness ==
    /\ result.op = "Get"
    /\ result.via = "expired"
    /\ cache.ttl > 0
    /\ now <= cache.ttl

\* C29: the final attempt decides the result of doRequest.  A call that
\* ended returns a response or an error and never both or neither; it
\* returns a response exactly when its last attempt received a status below
\* 400, and that response is the one of the last attempt; otherwise the
\* error is the classification of the last attempt's outcome: the transport
\* failure, NotFound, RateLimited with the delay of the last response, the
\* server error or the API error of the last status.
C29_FinalAttemptDecides ==
    Terminal =>
        /\ trace # <<>>
        /\ (ret.resp # NoResp) # (ret.err # NoErr)
        /\ LET last == Last(trace)
           IN  /\ (ret.err = NoErr) <=> (last # 0 /\ last < 400)
               /\ (pc = "Succeeded") <=> (ret.err = NoErr)
               /\ ret.err = NoErr => ret.resp = resp /\ resp.status = last
               /\ ret.err # NoErr =>
                     /\ last = 0 =>
                            \E msg \in Messages : /\ ret.err = NetworkError(msg)
                                                  /\ lastErr = NetworkError(msg)
                     /\ last = 404 => ret.err = NotFoundError(endpoint)
                     /\ last = 429 => ret.err = RateLimitError(parseRetryAfter(resp))
                     /\ last \in ServerErrorStatuses => ret.err = ServerError(last)
                     /\ last \in OtherStatuses => ret.err = APIError(last, resp.body)

C29_Witness ==
    /\ trace = <<429, 0, 500>>
    /\ pc = "Failed"
    /\ ret = [resp |-> NoResp, err |-> ServerError(500)]

\* the entries of a parameter map that carry a value
Content(params) ==
    [k \in ParamSet |-> IF params.m[k] = Nil THEN Absent ELSE params.m[k]]

\* C25: for one endpoint, two calls of GenerateKey whose parameter maps have
\* the same names with the same non-nil values return the same key, in
\* whatever order the entries are met, on a repeated call, and whether or
\* not nil-valued entries are present; the empty map and the nil map give
\* the key of the endpoint alone, 12 characters of a digest.
C25_KeyCanonical ==
    \A i, j \in DOMAIN generated :
        /\ (/\ generated[i].endpoint = generated[j].endpoint
            /\ Content(generated[i].params) = Content(generated[j].params)) =>
               generated[i].key = generated[j].key
        /\ Content(generated[i].params) = [k \in ParamSet |-> Absent] =>
               generated[i].key = Sum256Hex(<<generated[i].endpoint, "?">>)
        /\ generated[i].key.chars = 12

C25_Witness ==
    /\ Len(generated) = 2
    /\ generated[1].endpoint = generated[2].endpoint
    /\ generated[1].params.m = [k \in ParamSet |-> IF k = "a" THEN Nil ELSE IntValue(1)]
    /\ generated[1].iter = <<"b", "a">>
    /\ generated[2].params.m = [k \in ParamSet |-> IF k = "a" THEN Absent ELSE IntValue(1)]
    /\ generated[1].key = generated[2].key

\* C21 (as claimed): a Get that runs while a Set overwrites the entry of its
\* key returns found = true only with a payload some Set was handed whole,
\* never with the content of a data file that is being written.
C21_NoHalfWrittenReads ==
    (reader.pc = "returned" /\ reader.found) => reader.payload \in Payloads

\* C30 (as claimed): when a Set on k returned while a Get on k had decided to
\* remove the entry it had read and had removed nothing yet, then after both
\* returned the two files of k are the ones that Set wrote.
C30_StaleReader ==
    (/\ reader.pc = "returned"
     /\ writer.pc = "returned"
     /\ writer.overtook) =>
        /\ fs[dataPath(writer.key)] = File(writer.data)
        /\ fs[metaPath(writer.key)] =
               File(Marshal(CacheMetadata(writer.createdAt, cache.ttl)))

----------------------------------------------------------------------------
(* The commands: vocabulary of the properties *)

\* the entry of key is whole, its payload decodes, and it is within its ttl
Valid(f, t, key) ==
    /\ f[dataPath(key)].exists
    /\ f[metaPath(key)].exists
    /\ UnmarshalMetadata(f[metaPath(key)].content).ok
    /\ UnmarshalResults(f[dataPath(key)].content).ok
    /\ LET meta == UnmarshalMetadata(f[metaPath(key)].content).meta
       IN  t - meta.CreatedAt <= meta.TTL

\* caching is disabled for the command being run
Disabled(c) == c.noCache \/ ~c.enabled \/ c.ttl <= 0

\* this step is the command's call of c.Get, of c.Set
GetCalled == result = NoResult /\ result'.op = "Get"

SetCalled == result = NoResult /\ result'.op = "Set"

\* a step of the command that runs, from its start to the end of the process
CommandStep == ~exited \/ ~exited'

\* the command asks for a constant the results do not hold
UnknownKey(c) == c.name = "constants" /\ c.key # "" /\ c.key \notin KnownConstants

C24_WriteFailureSilent ==
    (exited /\ cmd.apiOK /\ cmd.set /\ cmd.setErr # "") =>
        /\ cmd.printed = cmd.results
        /\ exitCode = ExitSuccess

\* C24 (amended): when the API call succeeded and Set was called, the output
\* and the exit status are the same whatever Set returned: the results and
\* status 0, or nothing and status 2 when constants was asked for a key the
\* results do not hold.
C24_WriteFailureNotSurfaced ==
    (exited /\ cmd.apiOK /\ cmd.set) =>
        IF UnknownKey(cmd)
        THEN /\ cmd.printed = NoResults
             /\ cmdErr = [wraps |-> 0, err |-> UnknownConstantError]
             /\ exitCode = ExitNotFound
        ELSE /\ cmd.printed = cmd.results
             /\ cmdErr = NilError
             /\ exitCode = ExitSuccess

C24_Witness ==
    /\ exited
    /\ cmd.apiOK
    /\ cmd.set
    /\ cmd.setErr = "failed to write cache data"
    /\ cmd.printed = cmd.results
    /\ exitCode = ExitSuccess

C27_FailedCallsNotCached ==
    [][/\ SetCalled =>
              cmd.apiOK /\ cmd.results.found
       /\ (cmd.pc = "call" /\ ~cmd'.apiOK) =>
              /\ cmd'.pc = "returned"
              /\ cmdErr'.err # NoErr
              /\ ~cmd'.set
              /\ fs' = fs
       /\ (cmd.pc = "call" /\ cmd'.apiOK) => cmd'.results.found
       /\ (CommandStep /\ ~SetCalled) =>
              \A n \in DOMAIN fs : fs'[n].exists => fs'[n] = fs[n]]_vars

\* page on a slug the API does not know: NotFound, nothing cached
C27_Witness ==
    /\ exited
    /\ cmd.store
    /\ cmd.name = "page"
    /\ cmd.apiCalls = 1
    /\ cmdErr.err = NotFoundError("slug")
    /\ exitCode = ExitNotFound
    /\ ~cmd.set
    /\ Gone(fs, cmd.cacheKey)

====
